---- MODULE Spec2Model ----
(***************************************************************************)
(* LLM Arena (Ryandonofrio3/llm-compare): the Arena page component as a    *)
(* state machine.  One prompt is sent to two models through two useChat    *)
(* sessions (side "A" and side "B"); when both sessions are ready the      *)
(* user may vote, and votes are kept in a ledger that is mirrored into     *)
(* localStorage under the key "arena_votes".                               *)
(*                                                                         *)
(* Source: src/unnamed/part_000 (the page component) and                   *)
(* src/unnamed/part_001 (the /api/chat route).  The two chat sessions are  *)
(* instances of useChat from @ai-sdk/react (AI SDK v5), imported at        *)
(* part_000:4; their transitions follow that library's Chat class.         *)
(*                                                                         *)
(* React scheduling.  An event handler, the render it causes and the       *)
(* effects of that render run before the next event is delivered, so each  *)
(* handler is one action that includes the persist effect (609-612).  The  *)
(* mount is two commits: the mount effects (568-570, 603-607, 609-612 with *)
(* the initial empty ledger) and then the render caused by their setState  *)
(* calls, which runs the persist effect again with the hydrated ledger.    *)
(***************************************************************************)
EXTENDS Naturals, Sequences, FiniteSets, TLC

VARIABLES
    pc,            \* "boot" | "mounted" | "running" | "crashed"
    storageMode,   \* localStorage of this browser: "ok" | "full" | "denied"
    votesItem,     \* localStorage["arena_votes"]
    keyItem,       \* localStorage["openrouter_key"]
    bootItem,      \* history: votesItem as it was when the process started
    loaded,        \* value passed to setVotes by the load effect, not yet rendered
    loadedKey,     \* value passed to setApiKey by the credential effect, not yet rendered
    apiKey,        \* useState apiKey
    modelA,        \* useState modelA
    modelB,        \* useState modelB
    votes,         \* useState votes
    hasVoted,      \* useState hasVoted
    currentRound,  \* useState currentRound
    chat,          \* chat["A"], chat["B"]: the two useChat sessions
    clock,         \* Date.now(): the number of readings taken so far
    nRounds,       \* history: number of rounds started since the model began
    lastStarted,   \* history: the round most recently started by a submission
    cast,          \* history: for each vote appended, the timestamp of its round
    models,        \* useModels: useState models, the fetched directory
    loading,       \* useModels: useState loading, TRUE while the fetch is in flight
    listing,       \* the last answer of GET /api/models and the provider's answer behind it
    download       \* the file produced by the last export

vars == <<pc, storageMode, votesItem, keyItem, bootItem, loaded, loadedKey, apiKey,
          modelA, modelB, votes, hasVoted, currentRound, chat, clock, nRounds,
          lastStarted, cast, models, loading, listing, download>>

(***************************************************************************)
(* Bounds of the model.                                                    *)
(***************************************************************************)
MaxRounds == 2

MaxFrags == 1

MaxOld == 0

MaxVotes == 4

MaxHistory == 12

(***************************************************************************)
(* Program constants and input domains.                                    *)
(***************************************************************************)
defaultA == "anthropic/claude-3.7-sonnet"

defaultB == "openai/gpt-4o"

OtherModel == "x/other"

Models == {defaultA, defaultB}

Sides == {"A", "B"}

Other(s) == IF s = "A" THEN "B" ELSE "A"

NoKey == ""

UserKey == "sk-or-v1"

\* Texts are sequences of characters.
RawInputs == { <<>>, <<" ">>, <<" ", "p", " ">> }

KeyInputs == { "", UserKey }

RandSuffixes == {"r1"}

NoRound == [modelAId |-> "", modelBId |-> "", prompt |-> <<>>, timestamp |-> 0]

RECURSIVE TrimStart(_)
TrimStart(t) == IF t # <<>> /\ Head(t) = " " THEN TrimStart(Tail(t)) ELSE t

RECURSIVE TrimEnd(_)
TrimEnd(t) ==
    IF t # <<>> /\ t[Len(t)] = " " THEN TrimEnd(SubSeq(t, 1, Len(t) - 1)) ELSE t

\* String.prototype.trim
Trim(t) == TrimEnd(TrimStart(t))

(***************************************************************************)
(* localStorage and JSON.  An item is absent or holds a text.  A text is   *)
(* not JSON ("bad"), JSON that is not an array ("scalar"), or a JSON array *)
(* whose elements are rows: the fields of one vote object in key order.    *)
(***************************************************************************)
NoItem == [kind |-> "none", syntax |-> "none", rows |-> <<>>]

BadText == [kind |-> "text", syntax |-> "bad", rows |-> <<>>]

ScalarText == [kind |-> "text", syntax |-> "scalar", rows |-> <<>>]

ArrayText(rows) == [kind |-> "text", syntax |-> "array", rows |-> rows]

\* type ArenaVote
Vote(id, prompt, a, b, w, ts) ==
    [id |-> id, prompt |-> prompt, modelAId |-> a, modelBId |-> b,
     winnerModelId |-> w, timestamp |-> ts]

\* JSON.stringify of one vote object
RowOf(v) == <<v.id, v.prompt, v.modelAId, v.modelBId, v.winnerModelId, v.timestamp>>

\* JSON.parse of one object of a stored array
VoteOf(row) == Vote(row[1], row[2], row[3], row[4], row[5], row[6])

\* JSON.stringify(votes)
Stringify(vs) == ArrayText([i \in 1..Len(vs) |-> RowOf(vs[i])])

\* localStorage.getItem / setItem / removeItem throw in a browser that denies
\* storage access; setItem also throws when the quota is exhausted.
ReadThrows == storageMode = "denied"

WriteThrows == storageMode \in {"denied", "full"}

RemoveThrows == storageMode = "denied"

AllButLast(rows) == SubSeq(rows, 1, Len(rows) - 1)

LoadDropsLast(item) ==
    IF ReadThrows THEN <<>>
    ELSE IF item.kind = "none" THEN <<>>
    ELSE IF item.syntax = "bad" THEN <<>>
    ELSE IF item.syntax # "array" THEN <<>>
    ELSE [i \in 1..Len(AllButLast(item.rows)) |-> VoteOf(item.rows[i])]

LoadNoArrayCheck(item) ==
    IF ReadThrows THEN <<>>
    ELSE IF item.kind = "none" THEN <<>>
    ELSE IF item.syntax = "bad" THEN <<>>
    ELSE IF item.syntax # "array" THEN <<Vote(<<0, "r1">>, <<>>, "", "", "", 0)>>
    ELSE [i \in 1..Len(item.rows) |-> VoteOf(item.rows[i])]

\* loadVotesFromLocalStorage, reading the item given
loadVotesFromLocalStorage(item) ==
    IF ReadThrows THEN <<>>                     \* getItem throws: catch
    ELSE IF item.kind = "none" THEN <<>>        \* if (!raw) return []
    ELSE IF item.syntax = "bad" THEN <<>>       \* JSON.parse throws: catch
    ELSE IF item.syntax # "array" THEN <<>>     \* if (!Array.isArray(parsed)) return []
    ELSE [i \in 1..Len(item.rows) |-> VoteOf(item.rows[i])]

SaveNothing(vs, item) == item

\* saveVotesToLocalStorage: the item after the call, given the item before
saveVotesToLocalStorage(vs, item) ==
    IF WriteThrows THEN item                    \* setItem throws: catch, ignore
    ELSE Stringify(vs)

RemoveNothing(item) == item

\* localStorage.removeItem(VOTES_KEY) inside try/catch
removeVotesItem(item) == IF RemoveThrows THEN item ELSE NoItem

(***************************************************************************)
(* The statistics derived from the ledger.  A JavaScript object whose keys *)
(* are model ids ("vendor/name", never an array index) lists its keys in   *)
(* insertion order, so the counts object is a sequence of <<key, value>>   *)
(* entries, which is also what Object.entries returns.  A win rate is the  *)
(* text toFixed(1) produces: <<integer part, first decimal digit>>; the    *)
(* text "0" of the other branch is <<0>>.                                  *)
(***************************************************************************)
HasKey(counts, k) == \E i \in 1..Len(counts) : counts[i][1] = k

CountWinNeverIncrements(counts, k) ==
    IF HasKey(counts, k) THEN counts ELSE Append(counts, <<k, 1>>)

CountWinMovesKeyLast(counts, k) ==
    IF HasKey(counts, k)
    THEN LET i == CHOOSE j \in 1..Len(counts) : counts[j][1] = k
         IN SubSeq(counts, 1, i - 1) \o SubSeq(counts, i + 1, Len(counts))
              \o << <<k, counts[i][2] + 1>> >>
    ELSE Append(counts, <<k, 1>>)

\* counts[k] = (counts[k] || 0) + 1
CountWin(counts, k) ==
    IF HasKey(counts, k)
    THEN [i \in 1..Len(counts) |->
            IF counts[i][1] = k THEN <<k, counts[i][2] + 1>> ELSE counts[i]]
    ELSE Append(counts, <<k, 0 + 1>>)

RECURSIVE aggregateWinnerCounts(_)
\* aggregateWinnerCounts: one pass over the votes in ledger order
aggregateWinnerCounts(vs) ==
    IF vs = <<>> THEN <<>>
    ELSE CountWin(aggregateWinnerCounts(AllButLast(vs)), vs[Len(vs)].winnerModelId)

InsertBeforeEqual(sorted, e) ==
    LET k == Cardinality({i \in 1..Len(sorted) : sorted[i][2] > e[2]})
    IN SubSeq(sorted, 1, k) \o <<e>> \o SubSeq(sorted, k + 1, Len(sorted))

\* One step of the stable sort with comparator (a, b) => b[1] - a[1]: the
\* entry goes behind every entry that does not compare after it.
InsertEntry(sorted, e) ==
    LET k == Cardinality({i \in 1..Len(sorted) : sorted[i][2] >= e[2]})
    IN SubSeq(sorted, 1, k) \o <<e>> \o SubSeq(sorted, k + 1, Len(sorted))

RECURSIVE SortByCount(_)
\* Array.prototype.sort((a, b) => b[1] - a[1]), which is stable
SortByCount(entries) ==
    IF entries = <<>> THEN <<>>
    ELSE InsertEntry(SortByCount(AllButLast(entries)), entries[Len(entries)])

WinRateTruncates(count, n) ==
    IF n > 0
    THEN LET tenths == (count * 1000) \div n IN <<tenths \div 10, tenths % 10>>
    ELSE <<0>>

\* votes.length > 0 ? ((count / votes.length) * 100).toFixed(1) : "0"
\* toFixed(1) takes the nearest multiple of one tenth, the larger of two
\* equally near ones.
WinRate(count, n) ==
    IF n > 0
    THEN LET tenths == (count * 2000 + n) \div (2 * n) IN <<tenths \div 10, tenths % 10>>
    ELSE <<0>>

\* StatsDisplay.sortedCounts, without the display name looked up in the
\* model directory
sortedCounts(vs) ==
    LET sorted == SortByCount(aggregateWinnerCounts(vs))
    IN [i \in 1..Len(sorted) |->
          [modelId |-> sorted[i][1], count |-> sorted[i][2],
           winRate |-> WinRate(sorted[i][2], Len(vs))]]

\* a directory entry (OpenRouterModel); name "" when the entry has no name
Entry(id, name) == [id |-> id, name |-> name]

\* models.find(m => m.id === id)?.name || id
NameOf(ms, id) ==
    LET hits == {i \in 1..Len(ms) : ms[i].id = id} IN
    IF hits = {} THEN id
    ELSE LET first == CHOOSE i \in hits : \A j \in hits : i <= j
         IN IF ms[first].name = "" THEN id ELSE ms[first].name

RecentLimit == 10

TopLimit == 5

\* Array.prototype.slice(0, n)
Take(xs, n) == SubSeq(xs, 1, IF Len(xs) < n THEN Len(xs) ELSE n)

InsertVoteOldestFirst(sorted, v) ==
    LET k == Cardinality({i \in 1..Len(sorted) : sorted[i].timestamp <= v.timestamp})
    IN SubSeq(sorted, 1, k) \o <<v>> \o SubSeq(sorted, k + 1, Len(sorted))

\* One step of the stable sort with comparator
\* (a, b) => b.timestamp - a.timestamp
InsertVote(sorted, v) ==
    LET k == Cardinality({i \in 1..Len(sorted) : sorted[i].timestamp >= v.timestamp})
    IN SubSeq(sorted, 1, k) \o <<v>> \o SubSeq(sorted, k + 1, Len(sorted))

RECURSIVE SortByTimestamp(_)
\* [...votes].sort((a, b) => b.timestamp - a.timestamp)
SortByTimestamp(vs) ==
    IF vs = <<>> THEN <<>>
    ELSE InsertVote(SortByTimestamp(AllButLast(vs)), vs[Len(vs)])

\* const loserModelId = vote.winnerModelId === vote.modelAId ? vote.modelBId : vote.modelAId
LoserOf(v) == IF v.winnerModelId = v.modelAId THEN v.modelBId ELSE v.modelAId

\* StatsDisplay.recentVotes
recentVotes(vs, ms) ==
    LET top == Take(SortByTimestamp(vs), RecentLimit)
    IN [i \in 1..Len(top) |->
          top[i] @@ [winnerName |-> NameOf(ms, top[i].winnerModelId),
                     loserName |-> NameOf(ms, LoserOf(top[i]))]]

\* new Set([...votes.map(v => v.modelAId), ...votes.map(v => v.modelBId)]).size
ModelsTested(vs) ==
    Cardinality({vs[i].modelAId : i \in 1..Len(vs)} \cup {vs[i].modelBId : i \in 1..Len(vs)})

\* The "Models Tested" card of src/app/page.tsx: Object.keys(counts).length
ModelsTestedAppPage(vs) == Len(aggregateWinnerCounts(vs))

exportDataTopThree(vs, now) ==
    [votes |-> Stringify(vs),
     exportDate |-> now,
     summary |-> [totalVotes |-> Len(vs),
                  modelsTotal |-> ModelsTested(vs),
                  topModels |-> Take(SortByCount(aggregateWinnerCounts(vs)), 3)]]

\* exportData of exportStats, as JSON.stringify writes it into the file
exportData(vs, now) ==
    [votes |-> Stringify(vs),
     exportDate |-> now,
     summary |-> [totalVotes |-> Len(vs),
                  modelsTotal |-> ModelsTested(vs),
                  topModels |-> Take(SortByCount(aggregateWinnerCounts(vs)), TopLimit)]]

(***************************************************************************)
(* One useChat session.  status and messages are what the hook returns;    *)
(* reqs are the requests of this session whose response stream has not     *)
(* ended; active is the request held as the session's active response      *)
(* (the one stop() aborts), 0 when there is none.  A request is identified *)
(* by rid, the timestamp of the round that sent it.                        *)
(***************************************************************************)
NewChat == [status |-> "ready", messages |-> <<>>, reqs |-> {}, active |-> 0]

UserMessage(rid, text) == [role |-> "user", rid |-> rid, text |-> text]

AssistantMessage(rid, n) == [role |-> "assistant", rid |-> rid, text |-> [i \in 1..n |-> "f"]]

Request(rid, modelId, key, msgs) ==
    [rid |-> rid, modelId |-> modelId, key |-> key, messages |-> msgs, frags |-> 0]

\* the text of the last message of a request body: the prompt the request carries
PromptOf(req) == req.messages[Len(req.messages)].text

\* chat.setMessages(msgs)
setMessages(c, msgs) == [c EXCEPT !.messages = msgs]

\* chat.sendMessage({ text }, { body: { modelId }, headers: { "x-openrouter-key": key } }):
\* pushes the user message, sets status "submitted" and sends the request
\* with the session's messages.
sendMessage(c, text, modelId, key, rid) ==
    LET msgs == Append(c.messages, UserMessage(rid, text)) IN
    [status |-> "submitted",
     messages |-> msgs,
     reqs |-> c.reqs \cup {Request(rid, modelId, key, msgs)},
     active |-> rid]

ReqOf(c, rid) == CHOOSE r \in c.reqs : r.rid = rid

HasReq(c, rid) == \E r \in c.reqs : r.rid = rid

\* A text fragment of request rid arrives: status "streaming"; the request's
\* assistant message replaces the last message when that is this same
\* message, and is pushed otherwise.
onFragment(c, rid) ==
    LET r == ReqOf(c, rid)
        m == AssistantMessage(rid, r.frags + 1)
        n == Len(c.messages)
        same == n > 0 /\ c.messages[n].role = "assistant" /\ c.messages[n].rid = rid
    IN [c EXCEPT !.status = "streaming",
                 !.messages = IF same THEN [c.messages EXCEPT ![n] = m]
                                      ELSE Append(c.messages, m),
                 !.reqs = (c.reqs \ {r}) \cup {[r EXCEPT !.frags = r.frags + 1]}]

onFinishKeepsStatus(c, rid) ==
    [c EXCEPT !.reqs = c.reqs \ {ReqOf(c, rid)}, !.active = 0]

\* The stream of request rid ends: status "ready", the active response is dropped.
onFinish(c, rid) ==
    [c EXCEPT !.status = "ready", !.reqs = c.reqs \ {ReqOf(c, rid)}, !.active = 0]

\* The request or its stream fails: status "error", the active response is dropped.
onError(c, rid) ==
    [c EXCEPT !.status = "error", !.reqs = c.reqs \ {ReqOf(c, rid)}, !.active = 0]

stopKeepsStatus(c) ==
    IF c.status \notin {"submitted", "streaming"} THEN c
    ELSE IF c.active # 0 /\ HasReq(c, c.active)
         THEN [c EXCEPT !.reqs = c.reqs \ {ReqOf(c, c.active)},
                        !.active = 0]
         ELSE c

\* chat.stop(): nothing unless submitted or streaming; otherwise aborts the
\* active response, whose request then ends as aborted: status "ready",
\* messages kept.
stop(c) ==
    IF c.status \notin {"submitted", "streaming"} THEN c
    ELSE IF c.active # 0 /\ HasReq(c, c.active)
         THEN [c EXCEPT !.status = "ready",
                        !.reqs = c.reqs \ {ReqOf(c, c.active)},
                        !.active = 0]
         ELSE c

(***************************************************************************)
(* What localStorage may hold when the process starts: nothing, a text     *)
(* that is not JSON, JSON that is not an array, or an array of vote        *)
(* objects left by an earlier session or another writer of the origin.     *)
(***************************************************************************)
StoredVote == Vote(<<0, "r1">>, <<"p">>, defaultA, defaultB, defaultA, 0)

StoredVoteForeignWinner == Vote(<<0, "r1">>, <<"p">>, defaultA, defaultB, OtherModel, 0)

StoredSamples == { NoItem, BadText, ScalarText, Stringify(<<StoredVoteForeignWinner>>) }

\* A first visit: working storage, no votes stored, the key stored or not.
FreshBoots == {"ok"} \X {NoItem} \X {NoKey, UserKey}

\* The combinations of storage behaviour and content a process may start from.
StoreBoots ==
    ({"ok"} \X StoredSamples \X {NoKey, UserKey})
    \cup ({"full"} \X {NoItem, Stringify(<<StoredVote>>)} \X {NoKey, UserKey})
    \cup ({"denied"} \X {Stringify(<<StoredVote>>)} \X {UserKey})

\* Ledgers of up to MaxVotes votes left in storage by earlier sessions: the
\* i-th vote was cast at time i for the model ws[i], in a round of the two
\* default models or of the third model against the second.
StatsModels == {defaultA, defaultB, OtherModel}

StatsVote(w, ts) ==
    Vote(<<ts, "r1">>, <<"p">>, IF w = OtherModel THEN OtherModel ELSE defaultA,
         defaultB, w, ts)

StatsLedger(ws) == [i \in 1..Len(ws) |-> StatsVote(ws[i], i)]

StatsWinners == UNION {[1..n -> StatsModels] : n \in 0..MaxVotes}

\* Longer ledgers, of up to MaxHistory votes among seven models: the i-th
\* vote is won by its model A, chosen in turn ("cycle") or once, twice,
\* three times and so on ("steps"), against the next model; the timestamps
\* ascend, descend, come in equal pairs, or are mixed.
HistoryModels == <<"v/m1", "v/m2", "v/m3", "v/m4", "v/m5", "v/m6", "v/m7">>

WinnerIndex(wp, i) ==
    IF wp = "cycle" THEN ((i - 1) % 7) + 1
    ELSE CHOOSE j \in 1..i : (j * (j + 1)) \div 2 >= i /\ ((j - 1) * j) \div 2 < i

TimeOf(tp, i, n) ==
    CASE tp = "asc" -> i
      [] tp = "desc" -> n + 1 - i
      [] tp = "pairs" -> (i + 1) \div 2
      [] OTHER -> (i * 5) % 7

HistoryLedger(wp, tp, n) ==
    [i \in 1..n |->
       Vote(<<TimeOf(tp, i, n), "r1">>, <<"p">>,
            HistoryModels[WinnerIndex(wp, i)],
            HistoryModels[(WinnerIndex(wp, i) % 7) + 1],
            HistoryModels[WinnerIndex(wp, i)],
            TimeOf(tp, i, n))]

HistoryLedgers ==
    {HistoryLedger(wp, tp, n) :
        wp \in {"cycle", "steps"}, tp \in {"asc", "desc", "pairs", "mixed"},
        n \in 0..MaxHistory}

StatsBoots ==
    {"ok"}
    \X {Stringify(l) : l \in {StatsLedger(ws) : ws \in StatsWinners} \cup HistoryLedgers}
    \X {UserKey}

NewChats == [s \in Sides |-> NewChat]

\* no request to /api/models has been answered
NoListing == [upstream |-> 0, status |-> 0]

\* nothing has been exported
NoDownload == [votes |-> NoItem, exportDate |-> 0,
               summary |-> [totalVotes |-> 0, modelsTotal |-> 0, topModels |-> <<>>]]

Boot(samples) ==
    /\ pc = "boot"
    /\ \E b \in samples :
         storageMode = b[1] /\ votesItem = b[2] /\ keyItem = b[3]
    /\ bootItem = votesItem
    /\ loaded = <<>>
    /\ loadedKey = NoKey
    /\ apiKey = NoKey
    /\ modelA = defaultA
    /\ modelB = defaultB
    /\ votes = <<>>
    /\ hasVoted = FALSE
    /\ currentRound = NoRound
    /\ chat = NewChats
    /\ clock = 1
    /\ nRounds = 0
    /\ lastStarted = NoRound
    /\ cast = <<>>
    /\ models = <<>>
    /\ loading = FALSE
    /\ listing = NoListing
    /\ download = NoDownload

\* The effects of the first commit, in source order: the credential effect
\* (getItem outside any try: a throw here takes the page down), the load
\* effect, and the persist effect with the ledger of the first render, [].
MountEffects ==
    /\ pc = "boot"
    /\ pc' = IF ReadThrows THEN "crashed" ELSE "mounted"
    /\ loadedKey' = IF ReadThrows THEN NoKey ELSE keyItem
    /\ loaded' = loadVotesFromLocalStorage(votesItem)
    /\ votesItem' = saveVotesToLocalStorage(votes, votesItem)
    /\ UNCHANGED <<storageMode, keyItem, bootItem, apiKey, modelA, modelB,
                   votes, hasVoted, currentRound, chat, clock, nRounds, lastStarted, cast,
                   models, loading, listing, download>>

\* The render caused by setApiKey and setVotes of the mount effects, and the
\* effects that follow it: the persist effect because votes changed, and
\* the fetch effect of useModels when the key is set (setLoading(true)).
HydrateRender ==
    /\ pc = "mounted"
    /\ pc' = "running"
    /\ apiKey' = loadedKey
    /\ votes' = loaded
    /\ votesItem' = saveVotesToLocalStorage(loaded, votesItem)
    /\ loading' = (loadedKey # NoKey)
    /\ UNCHANGED <<storageMode, keyItem, bootItem, loaded, loadedKey, modelA, modelB,
                   hasVoted, currentRound, chat, clock, nRounds, lastStarted, cast,
                   models, listing, download>>

\* ApiKeyDialog.save, shown while there is no key: setItem is outside any
\* try, so when it throws onSave is never called.  With the key set, the
\* fetch effect of useModels starts the directory fetch (setLoading(true)).
SaveKey(value) ==
    /\ pc = "running"
    /\ apiKey = NoKey
    /\ IF value = "" \/ WriteThrows
       THEN UNCHANGED <<keyItem, apiKey, loading>>
       ELSE keyItem' = value /\ apiKey' = value /\ loading' = TRUE
    /\ UNCHANGED <<pc, storageMode, votesItem, bootItem, loaded, loadedKey, modelA,
                   modelB, votes, hasVoted, currentRound, chat, clock, nRounds,
                   lastStarted, cast,
                   models, listing, download>>

\* ModelSearch onChange: setModelA / setModelB, with the directory left
\* open: any model of Models may be on offer.
PickModel(s, m) ==
    /\ pc = "running"
    /\ IF s = "A" THEN modelA' = m /\ UNCHANGED modelB
                  ELSE modelB' = m /\ UNCHANGED modelA
    /\ UNCHANGED <<pc, storageMode, votesItem, keyItem, bootItem, loaded, loadedKey,
                   apiKey, votes, hasVoted, currentRound, chat, clock, nRounds,
                   lastStarted, cast,
                   models, loading, listing, download>>

\* ModelSearch pick of the i-th option on offer; the options are the
\* fetched directory.
PickOption(s, i) ==
    /\ pc = "running"
    /\ i \in 1..Len(models)
    /\ IF s = "A" THEN modelA' = models[i].id /\ UNCHANGED modelB
                  ELSE modelB' = models[i].id /\ UNCHANGED modelA
    /\ UNCHANGED <<pc, storageMode, votesItem, keyItem, bootItem, loaded, loadedKey,
                   apiKey, votes, hasVoted, currentRound, chat, clock, nRounds,
                   lastStarted, cast, models, loading, listing, download>>

(***************************************************************************)
(* The model directory: GET /api/models (the route handler at the end of   *)
(* src/app/page.tsx) asks the provider and useModels stores the answer.    *)
(***************************************************************************)
\* Directories the provider may return.
DirSamples ==
    { <<>>,
      <<Entry(OtherModel, "Other")>>,
      <<Entry(defaultA, ""), Entry(OtherModel, "Other")>>,
      <<Entry(OtherModel, "Other"), Entry(defaultB, "")>>,
      <<Entry(defaultA, "Claude 3.7 Sonnet"), Entry(defaultB, "GPT-4o")>> }

\* Answers of the provider: the directory, a rejected credential, a failure.
Upstreams ==
    {[status |-> 200, data |-> d] : d \in DirSamples}
    \cup {[status |-> 401, data |-> <<>>], [status |-> 500, data |-> <<>>]}

\* Response.ok
IsOk(status) == status \in 200..299

\* GET: the key is the x-openrouter-key header or else the bearer token
ModelsRoute(headerKey, bearer, up) ==
    LET key == IF headerKey # NoKey THEN headerKey ELSE bearer IN
    IF key = NoKey THEN [status |-> 401, data |-> <<>>]
    ELSE IF ~IsOk(up.status) THEN [status |-> 500, data |-> <<>>]
    ELSE [status |-> 200, data |-> up.data]

\* models.find((m) => m.id === id)
HasModel(ms, id) == \E i \in 1..Len(ms) : ms[i].id = id

\* if (!models.find((m) => m.id === modelA)) setModelA(models[0].id)
CorrectedA(ms, a) == IF HasModel(ms, a) THEN a ELSE ms[1].id

CorrectedBTakesFirst(ms, b) == IF HasModel(ms, b) THEN b ELSE ms[1].id

\* if (!models.find((m) => m.id === modelB))
\*   setModelB(models[Math.min(1, models.length - 1)].id)
CorrectedB(ms, b) ==
    IF HasModel(ms, b) THEN b
    ELSE ms[(IF Len(ms) - 1 < 1 THEN Len(ms) - 1 ELSE 1) + 1].id

\* The answer to the directory fetch arrives: setModels(data) on success,
\* setLoading(false) in either case, then the render and the selection
\* correction effect, which runs because loading changed.
ModelsResponse(up) ==
    /\ pc = "running"
    /\ loading
    /\ LET resp == ModelsRoute(apiKey, NoKey, up)
           fetched == IF IsOk(resp.status) THEN resp.data ELSE models
       IN /\ models' = fetched
          /\ loading' = FALSE
          /\ listing' = [upstream |-> up.status, status |-> resp.status]
          /\ IF Len(fetched) > 0
             THEN /\ modelA' = CorrectedA(fetched, modelA)
                  /\ modelB' = CorrectedB(fetched, modelB)
             ELSE UNCHANGED <<modelA, modelB>>
    /\ UNCHANGED <<pc, storageMode, votesItem, keyItem, bootItem, loaded, loadedKey,
                   apiKey, votes, hasVoted, currentRound, chat, clock, nRounds,
                   lastStarted, cast, download>>

SelectedModelAlwaysA(s) == modelA

\* the model id each side sends: modelA in chatA.sendMessage, modelB in chatB.sendMessage
SelectedModel(s) == IF s = "A" THEN modelA ELSE modelB

NewRoundKeepsOpenRound(text) ==
    IF currentRound # NoRound /\ ~hasVoted
    THEN currentRound
    ELSE [modelAId |-> modelA, modelBId |-> modelB, prompt |-> Trim(text),
          timestamp |-> clock]

\* const round = { modelAId: modelA, modelBId: modelB, prompt: text, timestamp: Date.now() }
NewRound(text) ==
    [modelAId |-> modelA, modelBId |-> modelB, prompt |-> Trim(text), timestamp |-> clock]

SubmitAcceptsWithoutKey(text) == Trim(text) # <<>>

\* if (!text || !apiKey) return
SubmitAccepts(text) == Trim(text) # <<>> /\ apiKey # NoKey

\* requests of earlier rounds whose stream has not ended
OlderRequests == Cardinality(chat["A"].reqs) + Cardinality(chat["B"].reqs)

\* The user has typed text into the prompt box and submits the form.
\* The box's content (useState input, cleared after an accepted submit)
\* is the parameter text: it is read by no other handler.
Submit(text) ==
    /\ pc = "running"
    /\ SubmitAccepts(text) => nRounds < MaxRounds /\ OlderRequests <= MaxOld
    /\ IF ~SubmitAccepts(text)
       THEN UNCHANGED <<currentRound, hasVoted, chat, clock, nRounds, lastStarted>>
       ELSE /\ chat' = [s \in Sides |->
                          sendMessage(setMessages(chat[s], <<>>), Trim(text),
                                      SelectedModel(s), apiKey, clock)]
            /\ currentRound' = NewRound(text)
            /\ hasVoted' = FALSE
            /\ clock' = clock + 1
            /\ nRounds' = nRounds + 1
            /\ lastStarted' = [modelAId |-> modelA, modelBId |-> modelB,
                               prompt |-> Trim(text), timestamp |-> clock]
    /\ UNCHANGED <<pc, storageMode, votesItem, keyItem, bootItem, loaded, loadedKey,
                   apiKey, modelA, modelB, votes, cast,
                   models, loading, listing, download>>

\* The same handler, submit, run while one more request of an earlier round
\* is still in flight than Submit admits: nothing in submit looks at the
\* sessions' status, and sendMessage does not abort an earlier response.
Resubmit(text) ==
    /\ pc = "running"
    /\ SubmitAccepts(text)
    /\ nRounds < MaxRounds
    /\ OlderRequests = MaxOld + 1
    /\ chat' = [s \in Sides |->
                  sendMessage(setMessages(chat[s], <<>>), Trim(text),
                              SelectedModel(s), apiKey, clock)]
    /\ currentRound' = NewRound(text)
    /\ hasVoted' = FALSE
    /\ clock' = clock + 1
    /\ nRounds' = nRounds + 1
    /\ lastStarted' = [modelAId |-> modelA, modelBId |-> modelB,
                       prompt |-> Trim(text), timestamp |-> clock]
    /\ UNCHANGED <<pc, storageMode, votesItem, keyItem, bootItem, loaded, loadedKey,
                   apiKey, modelA, modelB, votes, cast,
                   models, loading, listing, download>>

ChatFrame ==
    UNCHANGED <<pc, storageMode, votesItem, keyItem, bootItem, loaded, loadedKey, apiKey,
                modelA, modelB, votes, hasVoted, currentRound, clock, nRounds,
                lastStarted, cast,
                models, loading, listing, download>>

\* A text fragment of the response to request rid arrives on side s.
Fragment(s, rid) ==
    /\ pc = "running"
    /\ HasReq(chat[s], rid)
    /\ ReqOf(chat[s], rid).frags < MaxFrags
    /\ chat' = [chat EXCEPT ![s] = onFragment(chat[s], rid)]
    /\ ChatFrame

\* The response stream of request rid on side s ends.
Finish(s, rid) ==
    /\ pc = "running"
    /\ HasReq(chat[s], rid)
    /\ chat' = [chat EXCEPT ![s] = onFinish(chat[s], rid)]
    /\ ChatFrame

FailBothSides(s, rid) ==
    /\ pc = "running"
    /\ HasReq(chat[s], rid)
    /\ chat' = [chat EXCEPT ![s] = onError(chat[s], rid),
                            ![Other(s)].status = "error"]
    /\ ChatFrame

\* Request rid on side s fails (transport error, error response).
Fail(s, rid) ==
    /\ pc = "running"
    /\ HasReq(chat[s], rid)
    /\ chat' = [chat EXCEPT ![s] = onError(chat[s], rid)]
    /\ ChatFrame

\* Panel's Stop button, enabled while the side is submitted or streaming.
Stop(s) ==
    /\ pc = "running"
    /\ chat[s].status \in {"submitted", "streaming"}
    /\ chat' = [chat EXCEPT ![s] = stop(chat[s])]
    /\ ChatFrame

bothReadyIgnoresB ==
    /\ chat["A"].status = "ready"
    /\ currentRound # NoRound
    /\ Len(chat["A"].messages) > 0
    /\ Len(chat["B"].messages) > 0

bothReadyNeedsAnswers ==
    /\ chat["A"].status = "ready"
    /\ chat["B"].status = "ready"
    /\ currentRound # NoRound
    /\ Len(chat["A"].messages) > 1
    /\ Len(chat["B"].messages) > 1

\* useMemo bothReady
bothReady ==
    /\ chat["A"].status = "ready"
    /\ chat["B"].status = "ready"
    /\ currentRound # NoRound
    /\ Len(chat["A"].messages) > 0
    /\ Len(chat["B"].messages) > 0

VoteEnabledAfterVote == bothReady

\* The Prefer A / Prefer B buttons are rendered when bothReady and enabled
\* unless hasVoted.
VoteEnabled == bothReady /\ ~hasVoted

HandleVotePrepends(winner) ==
    /\ pc = "running"
    /\ VoteEnabled
    /\ Len(votes) < MaxRounds + 2
    /\ IF currentRound = NoRound
       THEN UNCHANGED <<votes, hasVoted, votesItem, clock, cast>>
       ELSE \E suffix \in RandSuffixes :
              LET winnerModelId == IF winner = "A" THEN currentRound.modelAId
                                                   ELSE currentRound.modelBId
                  vote == Vote(<<currentRound.timestamp, suffix>>, currentRound.prompt,
                               currentRound.modelAId, currentRound.modelBId,
                               winnerModelId, clock)
              IN /\ votes' = <<vote>> \o votes
                 /\ hasVoted' = TRUE
                 /\ votesItem' = saveVotesToLocalStorage(<<vote>> \o votes, votesItem)
                 /\ clock' = clock + 1
                 /\ cast' = Append(cast, currentRound.timestamp)
    /\ UNCHANGED <<pc, storageMode, keyItem, bootItem, loaded, loadedKey, apiKey,
                   modelA, modelB, currentRound, chat, nRounds, lastStarted,
                   models, loading, listing, download>>

HandleVoteUsesSelection(winner) ==
    /\ pc = "running"
    /\ VoteEnabled
    /\ Len(votes) < MaxRounds + 2
    /\ IF currentRound = NoRound
       THEN UNCHANGED <<votes, hasVoted, votesItem, clock, cast>>
       ELSE \E suffix \in RandSuffixes :
              LET winnerModelId == IF winner = "A" THEN modelA ELSE modelB
                  vote == Vote(<<currentRound.timestamp, suffix>>, currentRound.prompt,
                               modelA, modelB, winnerModelId, clock)
              IN /\ votes' = Append(votes, vote)
                 /\ hasVoted' = TRUE
                 /\ votesItem' = saveVotesToLocalStorage(Append(votes, vote), votesItem)
                 /\ clock' = clock + 1
                 /\ cast' = Append(cast, currentRound.timestamp)
    /\ UNCHANGED <<pc, storageMode, keyItem, bootItem, loaded, loadedKey, apiKey,
                   modelA, modelB, currentRound, chat, nRounds, lastStarted,
                   models, loading, listing, download>>

HandleVoteForgetsFlag(winner) ==
    /\ pc = "running"
    /\ VoteEnabled
    /\ Len(votes) < MaxRounds + 2
    /\ IF currentRound = NoRound
       THEN UNCHANGED <<votes, hasVoted, votesItem, clock, cast>>
       ELSE \E suffix \in RandSuffixes :
              LET winnerModelId == IF winner = "A" THEN currentRound.modelAId
                                                   ELSE currentRound.modelBId
                  vote == Vote(<<currentRound.timestamp, suffix>>, currentRound.prompt,
                               currentRound.modelAId, currentRound.modelBId,
                               winnerModelId, clock)
              IN /\ votes' = Append(votes, vote)
                 /\ UNCHANGED hasVoted
                 /\ votesItem' = saveVotesToLocalStorage(Append(votes, vote), votesItem)
                 /\ clock' = clock + 1
                 /\ cast' = Append(cast, currentRound.timestamp)
    /\ UNCHANGED <<pc, storageMode, keyItem, bootItem, loaded, loadedKey, apiKey,
                   modelA, modelB, currentRound, chat, nRounds, lastStarted,
                   models, loading, listing, download>>

\* handleVote(winner), then the render and the persist effect
HandleVote(winner) ==
    /\ pc = "running"
    /\ VoteEnabled
    /\ Len(votes) < MaxRounds + 2
    /\ IF currentRound = NoRound
       THEN UNCHANGED <<votes, hasVoted, votesItem, clock, cast>>
       ELSE \E suffix \in RandSuffixes :
              LET winnerModelId == IF winner = "A" THEN currentRound.modelAId
                                                   ELSE currentRound.modelBId
                  vote == Vote(<<currentRound.timestamp, suffix>>, currentRound.prompt,
                               currentRound.modelAId, currentRound.modelBId,
                               winnerModelId, clock)
              IN /\ votes' = Append(votes, vote)
                 /\ hasVoted' = TRUE
                 /\ votesItem' = saveVotesToLocalStorage(Append(votes, vote), votesItem)
                 /\ clock' = clock + 1
                 /\ cast' = Append(cast, currentRound.timestamp)
    /\ UNCHANGED <<pc, storageMode, keyItem, bootItem, loaded, loadedKey, apiKey,
                   modelA, modelB, currentRound, chat, nRounds, lastStarted,
                   models, loading, listing, download>>

ResetStatsKeepsVoted ==
    /\ pc = "running"
    /\ Len(votes) > 0
    /\ votes' = <<>>
    /\ currentRound' = NoRound
    /\ votesItem' = saveVotesToLocalStorage(<<>>, removeVotesItem(votesItem))
    /\ UNCHANGED <<pc, storageMode, keyItem, bootItem, loaded, loadedKey, apiKey,
                   modelA, modelB, hasVoted, chat, clock, nRounds, lastStarted, cast,
                   models, loading, listing, download>>

\* resetStats (the button exists only while the ledger is not empty), then
\* the render and the persist effect
ResetStats ==
    /\ pc = "running"
    /\ Len(votes) > 0
    /\ votes' = <<>>
    /\ hasVoted' = FALSE
    /\ currentRound' = NoRound
    /\ votesItem' = saveVotesToLocalStorage(<<>>, removeVotesItem(votesItem))
    /\ UNCHANGED <<pc, storageMode, keyItem, bootItem, loaded, loadedKey, apiKey,
                   modelA, modelB, chat, clock, nRounds, lastStarted, cast,
                   models, loading, listing, download>>

\* exportStats: the Export button of the statistics dialog, which exists
\* while the ledger is not empty; the file replaces the last download.
ExportStats ==
    /\ pc = "running"
    /\ Len(votes) > 0
    /\ download' = exportData(votes, clock)
    /\ UNCHANGED <<pc, storageMode, votesItem, keyItem, bootItem, loaded, loadedKey,
                   apiKey, modelA, modelB, votes, hasVoted, currentRound, chat, clock,
                   nRounds, lastStarted, cast, models, loading, listing>>

\* The page is closed or reloaded and opened again: memory is lost,
\* localStorage stays.
Restart ==
    /\ pc \in {"mounted", "running", "crashed"}
    /\ pc' = "boot"
    /\ bootItem' = votesItem
    /\ loaded' = <<>>
    /\ loadedKey' = NoKey
    /\ apiKey' = NoKey
    /\ modelA' = defaultA
    /\ modelB' = defaultB
    /\ votes' = <<>>
    /\ hasVoted' = FALSE
    /\ currentRound' = NoRound
    /\ chat' = NewChats
    /\ models' = <<>>
    /\ loading' = FALSE
    /\ listing' = NoListing
    /\ UNCHANGED <<storageMode, votesItem, keyItem, clock, nRounds, lastStarted, cast,
                   download>>

Init == Boot(FreshBoots)

InitStore == Boot(StoreBoots)

InitStats == Boot(StatsBoots)

Next ==
    \/ MountEffects
    \/ HydrateRender
    \/ \E value \in KeyInputs : SaveKey(value)
    \/ \E m \in Models : PickModel("A", m)
    \/ \E text \in RawInputs : Submit(text)
    \/ \E s \in Sides : \E r \in chat[s].reqs : Fragment(s, r.rid)
    \/ \E s \in Sides : \E r \in chat[s].reqs : Finish(s, r.rid)
    \/ \E s \in Sides : \E r \in chat[s].reqs : Fail(s, r.rid)
    \/ \E s \in Sides : Stop(s)
    \/ \E winner \in Sides : HandleVote(winner)
    \/ ResetStats

\* The persistence view: every boot sample and restarts, with the model
\* selection left at its defaults.
NextStore ==
    \/ MountEffects
    \/ HydrateRender
    \/ \E value \in KeyInputs : SaveKey(value)
    \/ \E text \in RawInputs : Submit(text)
    \/ \E s \in Sides : \E r \in chat[s].reqs : Fragment(s, r.rid)
    \/ \E s \in Sides : \E r \in chat[s].reqs : Finish(s, r.rid)
    \/ \E s \in Sides : \E r \in chat[s].reqs : Fail(s, r.rid)
    \/ \E s \in Sides : Stop(s)
    \/ \E winner \in Sides : HandleVote(winner)
    \/ ResetStats
    \/ Restart

\* The statistics view: a stored ledger is hydrated and displayed.
NextStats ==
    \/ MountEffects
    \/ HydrateRender
    \/ ExportStats

\* The directory view: the directory is fetched, the selection is corrected
\* and changed by picks, rounds are submitted, answered and voted.
NextDir ==
    \/ MountEffects
    \/ HydrateRender
    \/ \E value \in KeyInputs : SaveKey(value)
    \/ \E up \in Upstreams : ModelsResponse(up)
    \/ \E s \in Sides : \E i \in 1..Len(models) : PickOption(s, i)
    \/ \E text \in RawInputs : Submit(text)
    \/ \E s \in Sides : \E r \in chat[s].reqs : Finish(s, r.rid)
    \/ \E winner \in Sides : HandleVote(winner)

\* The overlap view: a returning user, whose key is stored, submits again
\* while an answer of the round before is still streaming.
InitOverlap == Boot({<<"ok", NoItem, UserKey>>})

NextOverlap ==
    \/ MountEffects
    \/ HydrateRender
    \/ \E text \in RawInputs : Submit(text)
    \/ \E text \in RawInputs : Resubmit(text)
    \/ \E s \in Sides : \E r \in chat[s].reqs : Fragment(s, r.rid)
    \/ \E s \in Sides : \E r \in chat[s].reqs : Finish(s, r.rid)
    \/ \E s \in Sides : \E r \in chat[s].reqs : Fail(s, r.rid)
    \/ \E winner \in Sides : HandleVote(winner)

Spec == Init /\ [][Next]_vars

SpecOverlap == InitOverlap /\ [][NextOverlap]_vars

SpecDir == Init /\ [][NextDir]_vars

SpecStore == InitStore /\ [][NextStore]_vars

SpecStats == InitStats /\ [][NextStats]_vars

\* The undisturbed view: every stream ends without an error and nothing is
\* stopped or reset.
NextLive ==
    \/ MountEffects
    \/ HydrateRender
    \/ \E value \in KeyInputs : SaveKey(value)
    \/ \E m \in Models : PickModel("A", m)
    \/ \E text \in RawInputs : Submit(text)
    \/ \E s \in Sides : \E r \in chat[s].reqs : Fragment(s, r.rid)
    \/ \E s \in Sides : \E r \in chat[s].reqs : Finish(s, r.rid)
    \/ \E winner \in Sides : HandleVote(winner)

\* Renders and effects that are due do run, and on each side a stream that
\* can end does end.
FairLive ==
    /\ WF_vars(MountEffects)
    /\ WF_vars(HydrateRender)
    /\ \A s \in Sides : WF_vars(\E r \in chat[s].reqs : Finish(s, r.rid))

SpecLive == Init /\ [][NextLive]_vars /\ FairLive

(***************************************************************************)
(* Properties.                                                             *)
(***************************************************************************)
Running == pc = "running"

\* The voting card is rendered exactly when bothReady (line 753).
VotingControlsShown == Running /\ bothReady

\* C1: the round is decidable (voting controls are shown) only if side A is
\* ready, side B is ready and each side holds at least one message; no side
\* is submitted, streaming or in error while the controls are shown.
C1_DecidableOnlyWhenBothReady ==
    VotingControlsShown =>
        \A s \in Sides :
            /\ chat[s].status = "ready"
            /\ chat[s].status \notin {"submitted", "streaming", "error"}
            /\ Len(chat[s].messages) >= 1

C1_Witness ==
    /\ VotingControlsShown
    /\ \A s \in Sides : Len(chat[s].messages) = 2 /\ chat[s].reqs = {}

\* C2: at most one vote is appended for each round: no round timestamp
\* occurs twice among the votes appended, and the ledger never holds two
\* votes of one round.
C2_AtMostOneVotePerRound ==
    /\ \A i, j \in 1..Len(cast) : i # j => cast[i] # cast[j]
    /\ \A i, j \in 1..Len(votes) : i # j => votes[i].id[1] # votes[j].id[1]
    /\ hasVoted => Len(cast) > 0 /\ cast[Len(cast)] = lastStarted.timestamp

C2_Witness == Len(cast) = 2 /\ Len(votes) = 2 /\ hasVoted /\ VotingControlsShown

\* a vote is appended by this step
VoteAppended == Len(cast') = Len(cast) + 1

\* C4: every vote recorded carries the prompt, modelAId and modelBId of the
\* round most recently started, and is a vote of that round; so a round that
\* was superseded without a vote never gets a ledger entry.
C4_VoteCarriesLatestRound ==
    [][VoteAppended =>
         LET v == votes'[Len(votes')] IN
         /\ Len(votes') = Len(votes) + 1
         /\ v.prompt = lastStarted.prompt
         /\ v.modelAId = lastStarted.modelAId
         /\ v.modelBId = lastStarted.modelBId
         /\ v.id[1] = lastStarted.timestamp
         /\ cast'[Len(cast')] = lastStarted.timestamp]_vars

\* the first round was abandoned without a vote, the second one was voted
C4_Witness ==
    /\ nRounds = 2
    /\ cast = <<lastStarted.timestamp>>
    /\ Len(votes) = 1
    /\ votes[1].modelAId = lastStarted.modelAId
    /\ lastStarted.timestamp = 2

\* a stream event or stop() on side s
SideEvent(s) ==
    \/ \E r \in chat[s].reqs : Fragment(s, r.rid)
    \/ \E r \in chat[s].reqs : Finish(s, r.rid)
    \/ \E r \in chat[s].reqs : Fail(s, r.rid)
    \/ Stop(s)

\* C5: a fragment, a completion, an error or stop() on one side leaves the
\* other side's status, messages and requests as they were, and every
\* stream of the other side can still end (Finish stays enabled for it).
C5_SidesIndependent ==
    [][\A s \in Sides :
         SideEvent(s) =>
            /\ chat'[Other(s)] = chat[Other(s)]
            /\ pc' = "running"
            /\ \A r \in chat[Other(s)].reqs : HasReq(chat'[Other(s)], r.rid)]_vars

\* side A failed, side B completed its answer
C5_Witness ==
    /\ chat["A"].status = "error"
    /\ chat["B"].status = "ready"
    /\ Len(chat["B"].messages) = 2
    /\ currentRound # NoRound

\* C6: submit with a prompt that is empty after trimming, or without a
\* credential, changes nothing: no round, no message or status change, no
\* request, and voted flag, current round and ledger as before.
C6_RejectedSubmitIsNoOp ==
    [][\A text \in RawInputs :
         (Submit(text) /\ (Trim(text) = <<>> \/ apiKey = NoKey)) =>
            UNCHANGED <<chat, currentRound, hasVoted, votes, votesItem, nRounds,
                        lastStarted, cast, clock>>]_vars

\* a round is in progress, the key is present and the form is submitted blank
C6_Witness ==
    /\ Running
    /\ apiKey # NoKey
    /\ currentRound # NoRound
    /\ chat["A"].status = "streaming"
    /\ ENABLED Submit(<<" ">>)

\* C7: an accepted submit leaves on each side only the new user message,
\* sends exactly one request per side with the trimmed prompt and the
\* credential, side A's with the round's modelAId and side B's with its
\* modelBId, and the new round is not voted.
C7_SubmitDispatchesTwoRequests ==
    [][\A text \in RawInputs :
         (Submit(text) /\ Trim(text) # <<>> /\ apiKey # NoKey) =>
            /\ currentRound' = [modelAId |-> modelA, modelBId |-> modelB,
                                prompt |-> Trim(text), timestamp |-> clock]
            /\ hasVoted' = FALSE
            /\ \A s \in Sides :
                 /\ chat'[s].messages = <<UserMessage(clock, Trim(text))>>
                 /\ chat'[s].status = "submitted"
                 /\ Cardinality(chat'[s].reqs \ chat[s].reqs) = 1
                 /\ \A r \in chat'[s].reqs \ chat[s].reqs :
                      /\ PromptOf(r) = Trim(text)
                      /\ r.messages = <<UserMessage(clock, Trim(text))>>
                      /\ r.key = apiKey
                      /\ r.modelId = IF s = "A" THEN currentRound'.modelAId
                                                ELSE currentRound'.modelBId]_vars

\* a second round has just been submitted after a completed first round
C7_Witness ==
    /\ nRounds = 2
    /\ ~hasVoted
    /\ \A s \in Sides :
         /\ chat[s].status = "submitted"
         /\ Len(chat[s].messages) = 1
         /\ \E r \in chat[s].reqs : r.rid = currentRound.timestamp /\ r.frags = 0

\* C3 as stated: every ledger entry, appended or hydrated, has its winner
\* among its two models.
C3_WinnerIsParticipant ==
    \A i \in 1..Len(votes) :
        votes[i].winnerModelId \in {votes[i].modelAId, votes[i].modelBId}

C9_HydrationEqualsStoredArray ==
    [][(pc = "mounted" /\ pc' = "running" /\ bootItem.syntax = "array") =>
         /\ Len(votes') = Len(bootItem.rows)
         /\ \A i \in 1..Len(bootItem.rows) :
              /\ votes'[i].id = bootItem.rows[i][1]
              /\ votes'[i].prompt = bootItem.rows[i][2]
              /\ votes'[i].modelAId = bootItem.rows[i][3]
              /\ votes'[i].modelBId = bootItem.rows[i][4]
              /\ votes'[i].winnerModelId = bootItem.rows[i][5]
              /\ votes'[i].timestamp = bootItem.rows[i][6]]_vars

\* two votes of an earlier run were hydrated
C9_Witness ==
    /\ Running
    /\ Len(bootItem.rows) = 2
    /\ Len(votes) = 2
    /\ cast # <<>>
    /\ votes[2].id[1] = cast[Len(cast)]
    /\ currentRound = NoRound

\* C10: load returns the empty sequence when the item is missing, is not
\* JSON, is not an array, or reading storage throws.
C10_LoadDefaultsToEmpty ==
    (pc \in {"mounted", "running", "crashed"}
       /\ (\/ bootItem.kind = "none"
           \/ bootItem.syntax = "bad"
           \/ bootItem.syntax = "scalar"
           \/ storageMode = "denied"))
    => loaded = <<>>

\* storage held JSON that is not an array
C10_Witness == pc = "mounted" /\ bootItem = ScalarText /\ loaded = <<>>

\* C11: reset empties the in-memory ledger and the persisted state: right
\* after it, and at every later point until the next vote, what a load
\* would read from storage is the empty sequence.
C11_ResetThenLoadIsEmpty ==
    [][/\ ResetStats =>
            /\ votes' = <<>>
            /\ loadVotesFromLocalStorage(votesItem') = <<>>
       /\ (/\ pc = "running" /\ pc' = "running"
           /\ votes = <<>> /\ votes' = <<>>
           /\ loadVotesFromLocalStorage(votesItem) = <<>>)
          => loadVotesFromLocalStorage(votesItem') = <<>>]_vars

\* a reset in mid-session (the panels still show the answers) in a browser
\* whose storage is full: the stored array is gone
C11_Witness ==
    /\ Running
    /\ storageMode = "full"
    /\ bootItem = Stringify(<<StoredVote>>)
    /\ votes = <<>>
    /\ votesItem = NoItem
    /\ currentRound = NoRound
    /\ Len(chat["A"].messages) > 0

\* xs is an initial segment of ys
IsPrefix(xs, ys) ==
    /\ Len(xs) <= Len(ys)
    /\ \A i \in 1..Len(xs) : xs[i] = ys[i]

\* C12: between resets the ledger only grows at its end: every step of a
\* running process other than a reset leaves the old ledger as a prefix of
\* the new one.
C12_AppendOnlyBetweenResets ==
    [][(pc' # "boot" /\ ~ResetStats) => IsPrefix(votes, votes')]_vars

\* a vote was appended behind a hydrated one
C12_Witness ==
    /\ Running
    /\ Len(votes) = 2
    /\ votes[1] = StoredVoteForeignWinner
    /\ votes[2].id[1] = lastStarted.timestamp
    /\ hasVoted

BothSidesAnswered ==
    \A s \in Sides : chat[s].status = "ready" /\ Len(chat[s].messages) >= 1

\* C13 as stated: both sides ready with at least one message each makes the
\* round decidable.
C13_DecidableWheneverBothReady ==
    (Running /\ BothSidesAnswered) => VotingControlsShown

\* C13 amended: both sides ready with at least one message each makes the
\* round decidable exactly when there is a current round, which is not the
\* case after a reset until the next submit.
C13_DecidableWhenBothReadyAndRound ==
    (Running /\ BothSidesAnswered) => (VotingControlsShown <=> currentRound # NoRound)

\* both sides were stopped before any answer text arrived
C13_Witness ==
    /\ VotingControlsShown
    /\ \A s \in Sides : Len(chat[s].messages) = 1
    /\ ~hasVoted

\* C14: once the round is voted no vote is appended for it and it stays
\* voted; the step that appends a vote is the first attempt on its round.
C14_SecondVoteIsNoOp ==
    [][/\ (hasVoted /\ currentRound' = currentRound /\ pc' = "running")
          => (votes' = votes /\ cast' = cast /\ hasVoted')
       /\ \A winner \in Sides :
            (HandleVote(winner) /\ currentRound # NoRound)
            => (~hasVoted /\ hasVoted' /\ Len(votes') = Len(votes) + 1)]_vars

\* the round is voted, the buttons are shown and no vote can be cast
C14_Witness ==
    /\ VotingControlsShown
    /\ hasVoted
    /\ Len(votes) = 1
    /\ \A winner \in Sides : ~ENABLED HandleVote(winner)

C16_EventuallyDecidable ==
    (Running /\ currentRound # NoRound) ~> VotingControlsShown

\* side A has completed without any answer text, side B with a partial answer
C16_Witness ==
    /\ VotingControlsShown
    /\ nRounds = 1
    /\ ~hasVoted
    /\ chat["A"].messages = <<UserMessage(currentRound.timestamp, currentRound.prompt)>>
    /\ Len(chat["B"].messages) = 2

\* the number of votes of the ledger won by model m
WinsOf(m) == Cardinality({k \in 1..Len(votes) : votes[k].winnerModelId = m})

\* the models that won at least one vote of the ledger
Winners == {votes[k].winnerModelId : k \in 1..Len(votes)}

RECURSIVE SumCounts(_)
SumCounts(counts) ==
    IF counts = <<>> THEN 0 ELSE counts[Len(counts)][2] + SumCounts(AllButLast(counts))

\* C17: winCounts has exactly one entry for each model that won a vote, its
\* value is the number of votes that model won (so never zero), the values
\* add up to the number of votes, and a single vote v gives {v.winner: 1}.
C17_WinCountsCountWinners ==
    LET counts == aggregateWinnerCounts(votes) IN
    /\ \A i, j \in 1..Len(counts) : i # j => counts[i][1] # counts[j][1]
    /\ {counts[i][1] : i \in 1..Len(counts)} = Winners
    /\ \A i \in 1..Len(counts) : counts[i][2] = WinsOf(counts[i][1]) /\ counts[i][2] >= 1
    /\ SumCounts(counts) = Len(votes)
    /\ Len(votes) = 1 => counts = << <<votes[1].winnerModelId, 1>> >>

\* four hydrated votes, three winners, one of them with two wins
C17_Witness ==
    /\ Running
    /\ Len(votes) = 4
    /\ Len(aggregateWinnerCounts(votes)) = 3
    /\ \E m \in Winners : WinsOf(m) = 2

\* the position in the ledger of model m's first win, and of its last win,
\* which is where its win total became its final count
FirstWin(m) == CHOOSE k \in 1..Len(votes) :
    /\ votes[k].winnerModelId = m
    /\ \A j \in 1..(k - 1) : votes[j].winnerModelId # m

LastWin(m) == CHOOSE k \in 1..Len(votes) :
    /\ votes[k].winnerModelId = m
    /\ \A j \in (k + 1)..Len(votes) : votes[j].winnerModelId # m

\* the position of key m in the count mapping
KeyPosition(m) ==
    CHOOSE i \in 1..Len(aggregateWinnerCounts(votes)) : aggregateWinnerCounts(votes)[i][1] = m

\* C18: rankings has one entry per winning model, with that model's count,
\* in non-increasing order of count; entries of equal count are in the order
\* of their keys in the count mapping, which is the order of first wins.
C18_RankingsSortedStable ==
    LET r == sortedCounts(votes) IN
    /\ Len(r) = Cardinality(Winners)
    /\ {r[i].modelId : i \in 1..Len(r)} = Winners
    /\ \A i \in 1..Len(r) : r[i].count = WinsOf(r[i].modelId)
    /\ \A i, j \in 1..Len(r) :
         i < j => /\ r[i].count >= r[j].count
                  /\ r[i].count = r[j].count =>
                       /\ KeyPosition(r[i].modelId) < KeyPosition(r[j].modelId)
                       /\ FirstWin(r[i].modelId) < FirstWin(r[j].modelId)

\* the model that won last leads, two models tied at one win follow in the
\* order of their first wins
C18_Witness ==
    /\ Running
    /\ Len(votes) = 4
    /\ Len(sortedCounts(votes)) = 3
    /\ sortedCounts(votes)[1].modelId = votes[4].winnerModelId
    /\ sortedCounts(votes)[1].count = 2
    /\ sortedCounts(votes)[2].modelId = votes[1].winnerModelId

\* C19 as stated: of two entries with equal counts the model whose win
\* total reached its final count earlier in the ledger is ranked first.
C19_TieByFirstReachedFinalCount ==
    LET r == sortedCounts(votes) IN
    \A i, j \in 1..Len(r) :
        (i < j /\ r[i].count = r[j].count)
        => LastWin(r[i].modelId) < LastWin(r[j].modelId)

\* C19 amended: of two entries with equal counts the model whose first win
\* is earlier in the ledger is ranked first, whichever of the two reached
\* its final count first.
C19_TieByFirstWin ==
    LET r == sortedCounts(votes) IN
    \A i, j \in 1..Len(r) :
        (r[i].count = r[j].count /\ FirstWin(r[i].modelId) < FirstWin(r[j].modelId))
        => i < j

\* two models tied at two wins: the first-ranked one won first and reached
\* its final count last
C19_Witness ==
    /\ Running
    /\ Len(sortedCounts(votes)) = 2
    /\ sortedCounts(votes)[1].count = 2
    /\ sortedCounts(votes)[2].count = 2
    /\ FirstWin(sortedCounts(votes)[1].modelId) = 1
    /\ LastWin(sortedCounts(votes)[1].modelId) = 4

\* x tenths is count / n * 100 rounded to one decimal place, halves upwards
IsRoundedTenths(x, count, n) ==
    /\ 2 * x * n <= 2000 * count + n
    /\ 2000 * count < 2 * x * n + n

\* C20: the win rate of every ranking entry is count / totalVotes * 100
\* rounded to one decimal place, 3 of 4 giving 75.0; without votes there is
\* no ranking entry.
C20_WinRateOneDecimal ==
    LET r == sortedCounts(votes) IN
    /\ \A i \in 1..Len(r) :
         /\ Len(r[i].winRate) = 2
         /\ r[i].winRate[2] \in 0..9
         /\ IsRoundedTenths(10 * r[i].winRate[1] + r[i].winRate[2], r[i].count, Len(votes))
         /\ (r[i].count = 3 /\ Len(votes) = 4) => r[i].winRate = <<75, 0>>
    /\ votes = <<>> => r = <<>>

\* four votes, a model with three wins at 75.0 and one with one win at 25.0
C20_Witness ==
    /\ Running
    /\ Len(votes) = 4
    /\ Len(sortedCounts(votes)) = 2
    /\ sortedCounts(votes)[1].count = 3
    /\ sortedCounts(votes)[1].winRate = <<75, 0>>
    /\ sortedCounts(votes)[2].winRate = <<25, 0>>

\* C26 as stated: with storage unavailable neither reading nor storing the
\* credential throws (the page survives its mount and a key that is saved
\* becomes the session's key).
C26_CredentialSurvivesStorageFailure ==
    [][/\ MountEffects => pc' # "crashed"
       /\ \A value \in KeyInputs :
            (SaveKey(value) /\ value # "") => apiKey' = value]_vars

\* C28 as stated: from process start to the end of hydration storage holds
\* what it held at the start.
C28_StartupKeepsStoredVotes ==
    (pc \in {"boot", "mounted"} /\ bootItem.syntax = "array")
    => /\ votesItem.syntax = "array"
       /\ votesItem.rows = bootItem.rows

\* C30: hasVoted holds only while a current round exists whose prompt and
\* model ids the last ledger entry carries; an accepted submit and a reset
\* leave hasVoted false.
C30_VotedMeansLastEntryOfRound ==
    /\ [](hasVoted =>
            /\ currentRound # NoRound
            /\ Len(votes) > 0
            /\ votes[Len(votes)].prompt = currentRound.prompt
            /\ votes[Len(votes)].modelAId = currentRound.modelAId
            /\ votes[Len(votes)].modelBId = currentRound.modelBId)
    /\ [][/\ \A text \in RawInputs :
               (Submit(text) /\ SubmitAccepts(text)) => ~hasVoted'
          /\ ResetStats => ~hasVoted']_vars

\* the second round is voted and the selection has changed since its submit
C30_Witness ==
    /\ Running
    /\ hasVoted
    /\ Len(votes) = 2
    /\ votes[2].id[1] = currentRound.timestamp
    /\ modelA # currentRound.modelAId

\* the smaller of two numbers
Least(a, b) == IF a < b THEN a ELSE b

\* the model ids that took part in a vote of the ledger
Participants ==
    {votes[k].modelAId : k \in 1..Len(votes)} \cup {votes[k].modelBId : k \in 1..Len(votes)}

\* C21: recentHistory has min(10, votes.length) entries, each a vote of the
\* ledger, in non-increasing order of timestamp, and for every time t it
\* holds as many votes later than t as the ledger has, up to 10; 12 votes
\* give exactly 10 entries.
C21_RecentHistoryNewestTen ==
    LET r == recentVotes(votes, models) IN
    /\ Len(r) = Least(10, Len(votes))
    /\ Len(votes) = 12 => Len(r) = 10
    /\ \A i, j \in 1..Len(r) : i < j => r[i].timestamp >= r[j].timestamp
    /\ \A i \in 1..Len(r) :
         \E k \in 1..Len(votes) :
            /\ r[i].id = votes[k].id
            /\ r[i].prompt = votes[k].prompt
            /\ r[i].modelAId = votes[k].modelAId
            /\ r[i].modelBId = votes[k].modelBId
            /\ r[i].winnerModelId = votes[k].winnerModelId
            /\ r[i].timestamp = votes[k].timestamp
    /\ \A k \in 1..Len(votes) :
         Cardinality({i \in 1..Len(r) : r[i].timestamp > votes[k].timestamp})
           = Least(10, Cardinality({j \in 1..Len(votes) :
                                      votes[j].timestamp > votes[k].timestamp}))

\* twelve votes stored oldest first: the ten newest are listed, newest first
C21_Witness ==
    /\ Running
    /\ Len(votes) = 12
    /\ votes[1].timestamp = 1
    /\ votes[12].timestamp = 12
    /\ Len(recentVotes(votes, models)) = 10
    /\ recentVotes(votes, models)[1].timestamp = 12
    /\ recentVotes(votes, models)[10].timestamp = 3

\* C22 as stated: the Models Tested figure is the number of distinct model
\* ids among all modelAId and modelBId of the ledger, on every page of the
\* repository that shows it.
C22_ModelsTestedIsUnion ==
    Running =>
        /\ ModelsTested(votes) = Cardinality(Participants)
        /\ ModelsTestedAppPage(votes) = Cardinality(Participants)

\* C23: the exported file holds the ledger's votes as they are, their
\* number, the number of distinct participating model ids, and as topModels
\* the five (or fewer) <<model id, wins>> pairs of the most-winning models
\* in non-increasing order of wins.
C23_ExportMatchesLedger ==
    [][ExportStats =>
         LET d == download'
             top == d.summary.topModels
         IN /\ d.votes.syntax = "array"
            /\ Len(d.votes.rows) = Len(votes)
            /\ \A i \in 1..Len(votes) :
                 d.votes.rows[i] = <<votes[i].id, votes[i].prompt, votes[i].modelAId,
                                     votes[i].modelBId, votes[i].winnerModelId,
                                     votes[i].timestamp>>
            /\ d.summary.totalVotes = Len(votes)
            /\ d.summary.modelsTotal = Cardinality(Participants)
            /\ Len(top) = Least(5, Cardinality(Winners))
            /\ \A i \in 1..Len(top) : top[i][1] \in Winners /\ top[i][2] = WinsOf(top[i][1])
            /\ \A i, j \in 1..Len(top) : i < j => (top[i][2] >= top[j][2] /\ top[i][1] # top[j][1])
            /\ \A m \in Winners :
                 (\A i \in 1..Len(top) : top[i][1] # m)
                 => \A i \in 1..Len(top) : top[i][2] >= WinsOf(m)]_vars

\* a ledger with seven winners was exported: five of them are listed
C23_Witness ==
    /\ Running
    /\ download # NoDownload
    /\ Len(votes) = 12
    /\ Cardinality(Winners) = 7
    /\ download.summary.totalVotes = 12
    /\ download.summary.modelsTotal = 7
    /\ Len(download.summary.topModels) = 5

\* C24: when a directory fetch yields a non-empty list, a selected id that
\* is absent from it is replaced (side A by the first entry, side B by the
\* second entry, or by the first when there is only one) and a selected id
\* that is present stays; from then on both selected ids are in the
\* directory.
C24_SelectionCorrectedOnRefresh ==
    /\ [][\A up \in Upstreams :
            (ModelsResponse(up) /\ Len(models') > 0) =>
               /\ modelA' = IF \E i \in 1..Len(models') : models'[i].id = modelA
                            THEN modelA ELSE models'[1].id
               /\ modelB' = IF \E i \in 1..Len(models') : models'[i].id = modelB
                            THEN modelB
                            ELSE IF Len(models') >= 2 THEN models'[2].id
                                                      ELSE models'[1].id]_vars
    /\ []((Running /\ ~loading /\ Len(models) > 0) =>
            /\ \E i \in 1..Len(models) : models[i].id = modelA
            /\ \E i \in 1..Len(models) : models[i].id = modelB)

\* the directory lacks side B's default: side B was moved to the second
\* entry while side A kept its selection
C24_Witness ==
    /\ Running
    /\ ~loading
    /\ Len(models) = 2
    /\ listing.status = 200
    /\ modelA = defaultA
    /\ modelB = models[2].id
    /\ modelB # defaultB
    /\ nRounds = 0

\* C25 as stated: the listing answers 401 when the credential is absent
\* and when the provider rejects it, and fails otherwise for every other
\* answer of the provider that is not a success.
C25_ListingDistinguishesFailures ==
    /\ listing.upstream = 401 => listing.status = 401
    /\ (listing.upstream # 0 /\ listing.upstream # 401 /\ ~IsOk(listing.upstream))
         => (listing.status # 401 /\ ~IsOk(listing.status))

\* C29: a vote carries the model ids of the round it belongs to as they
\* were captured at submit, which are the ids that round's two requests
\* were sent with, and its winner is the captured id of the side chosen,
\* whatever the selection is when the vote is cast.
C29_VoteKeepsCapturedModels ==
    [][/\ \A text \in RawInputs :
            (Submit(text) /\ SubmitAccepts(text)) =>
               \A s \in Sides :
                  \A r \in chat'[s].reqs \ chat[s].reqs :
                     r.modelId = IF s = "A" THEN lastStarted'.modelAId
                                            ELSE lastStarted'.modelBId
       /\ \A winner \in Sides :
            (HandleVote(winner) /\ currentRound # NoRound) =>
               LET v == votes'[Len(votes')] IN
               /\ v.modelAId = lastStarted.modelAId
               /\ v.modelBId = lastStarted.modelBId
               /\ v.winnerModelId = IF winner = "A" THEN lastStarted.modelAId
                                                    ELSE lastStarted.modelBId]_vars

\* the round was submitted with the defaults, the directory then moved both
\* selections, and the vote carries the defaults
C29_Witness ==
    /\ Running
    /\ hasVoted
    /\ listing.status = 200
    /\ votes[Len(votes)].modelAId = defaultA
    /\ votes[Len(votes)].modelBId = defaultB
    /\ votes[Len(votes)].winnerModelId = defaultB
    /\ modelA = OtherModel
    /\ modelB = OtherModel

\* C27 as stated: the round is decidable only when both streams of its own
\* submission have ended, and the messages each side then holds belong to
\* this round; streams of earlier rounds have no part in it.
C27_OldStreamsDoNotAffectNewRound ==
    VotingControlsShown =>
        \A s \in Sides :
            /\ ~HasReq(chat[s], currentRound.timestamp)
            /\ \A i \in 1..Len(chat[s].messages) :
                 chat[s].messages[i].rid = currentRound.timestamp

====
